---- MODULE Spec2Model ----
(***************************************************************************)
(* The embedding-indexed document store of sports-llm:                     *)
(* MongoVectorCollection.add / MongoVectorCollection.query over a MongoDB  *)
(* collection (src/sports-llm/mongo_vector_collection.py).                 *)
(*                                                                         *)
(* Conventions                                                             *)
(*   - a Python Optional is a sequence: <<>> is None, <<x>> is the value x *)
(*   - a Python str is a sequence of one-character strings ("" is <<>>)    *)
(*   - a Python dict used as metadata / where / where_document is a set of *)
(*     <<key, value>> pairs                                                *)
(*   - a stored document is a record; "_id" is written id_                 *)
(*   - a vector is a tuple of integers; a vector handed to add is tagged   *)
(*     with its Python type, <<"ndarray", v>> or <<"list", v>>; cosine     *)
(*     distances are kept as exact                                         *)
(*     fractions (dot product and squared norms), NaN included             *)
(***************************************************************************)
EXTENDS Integers, Sequences, FiniteSets, TLC

VARIABLES
    store,              \* the MongoDB collection self.collection, in scan (insertion) order
    embedding_function, \* self.embedding_function: "bound" or "None"
    apc,                \* position of the add call: idle, insert_many, returned, raised
    docs_to_insert,     \* add: the batch handed to insert_many
    inserted,           \* add: number of documents of the batch written so far
    add_error,          \* add: the exception raised ("" when none)
    encoded,            \* add: the documents handed to the embedding function by the last call
    aargs,              \* add: documents, embeddings, metadatas, ids of the last call
    qpc,                \* position of the query call: idle, loop, returned, raised
    qargs,              \* query: n_results, where, where_document of the running call
    query_embeddings,   \* query: the query vectors of the running call
    qi,                 \* query: index of the next query vector of the for loop
    results,            \* query: the results dict built so far
    query_error,        \* query: the exception raised ("" when none)
    scan,               \* query: the list `documents` of the last store scan
    written,            \* ids of the records written by add calls that have returned
    prev_ids,           \* ranked ids returned by the previous, identical query call
    client,             \* the MongoVectorClient: its embedding_function
    collections,        \* the MongoVectorCollection objects made by get_or_create_collection
    self,               \* the object add and query are called on (0: made by its constructor)
    db,                 \* self.db: the documents of every collection but self.collection
    added,              \* <<object, collection name, document>> of the documents written
    saves,              \* DataPopulator.save_training_data: the call of each caller
    request,            \* driver.query_llm: the request being served
    embed               \* driver.embed_all_docs: the request being served

vars == <<store, embedding_function, apc, docs_to_insert, inserted, add_error, encoded,
          aargs, qpc,
          qargs, query_embeddings, qi, results, query_error, scan, written, prev_ids,
          client, collections, self, db, added, saves, request, embed>>

(***************************************************************************)
(* Bounds of the model.                                                    *)
(***************************************************************************)
MaxStore == 3       \* records in the collection
MaxAdd == 2         \* elements of one add call
MaxQueries == 2     \* query vectors of one query call
MaxK == 3           \* largest n_results

(***************************************************************************)
(* Python values.                                                          *)
(***************************************************************************)
None == <<>>
Some(x) == <<x>>
IsNone(o) == Len(o) = 0
Min2(a, b) == IF a <= b THEN a ELSE b
Max2(a, b) == IF a >= b THEN a ELSE b

\* str.lower() on the characters of the model's alphabet
LowerChar(c) == IF c = "A" THEN "a" ELSE IF c = "B" THEN "b" ELSE c
Lower(t) == [i \in 1..Len(t) |-> LowerChar(t[i])]

\* s occurs in t (the regular expression s has no metacharacters)
Contains(t, s) == \E i \in 0..(Len(t) - Len(s)) : SubSeq(t, i + 1, i + Len(s)) = s

\* dict lookup on a set of <<key, value>> pairs
HasKey(d, k) == \E kv \in d : kv[1] = k
Get(d, k) == (CHOOSE kv \in d : kv[1] = k)[2]

\* list[:n]
PySlice(s, n) == IF n >= 0 THEN SubSeq(s, 1, Min2(n, Len(s)))
                 ELSE SubSeq(s, 1, Max2(Len(s) + n, 0))

(***************************************************************************)
(* The embedding function (SentenceTransformer.encode): a deterministic    *)
(* map from text to a vector of dimension 2.                               *)
(***************************************************************************)
TextAb == <<"a", "b">>
TextB == <<"B">>
Texts == {TextAb, TextB}

encode(text) == IF text = TextAb THEN <<1, 0>>
                ELSE IF text = TextB THEN <<1, 1>>
                ELSE <<0, 1>>

\* a document the embedding function fails on, and the error it raises
Unencodable == <<"?">>
EncodeError == "RuntimeError: encode failed"
encode_fails(text) == text = Unencodable

\* a comprehension that calls encode a second time on every document
encode_calls_twice(documents) ==
    LET failing == {i \in 1..Len(documents) : encode_fails(documents[i])}
    IN  IF failing = {} THEN documents \o documents
        ELSE SubSeq(documents, 1, CHOOSE i \in failing : \A j \in failing : i <= j)

\* line 27, [self.embedding_function.encode(doc) for doc in documents]: the documents
\* encode is called on, in order; the first failure ends the comprehension
encode_calls(documents) ==
    LET failing == {i \in 1..Len(documents) : encode_fails(documents[i])}
    IN  IF failing = {} THEN documents
        ELSE SubSeq(documents, 1, CHOOSE i \in failing : \A j \in failing : i <= j)

(***************************************************************************)
(* numpy: dot product, and the cosine distance of lines 106-111.           *)
(* distance = 1 - dot(q, v) / (norm(q) * norm(v)) is kept as the triple    *)
(* (dot(q, v), dot(q, q), dot(v, v)); a zero norm makes the quotient 0/0,  *)
(* which numpy evaluates to nan.                                           *)
(***************************************************************************)
RECURSIVE dot(_, _)
dot(a, b) == IF Len(a) = 0 THEN 0 ELSE a[1] * b[1] + dot(Tail(a), Tail(b))

distance(query_vec, doc_vec) ==
    [num |-> dot(query_vec, doc_vec),
     nq  |-> dot(query_vec, query_vec),
     nv  |-> dot(doc_vec, doc_vec)]

IsNaN(d) == d.nq * d.nv = 0

\* x * |x|: monotone in x, so it compares signed square roots exactly
SignedSquare(x) == IF x >= 0 THEN x * x ELSE 0 - (x * x)

\* float `<` on two distances: False as soon as one operand is nan
DistLT(a, b) ==
    /\ ~IsNaN(a)
    /\ ~IsNaN(b)
    /\ SignedSquare(a.num) * (b.nq * b.nv) > SignedSquare(b.num) * (a.nq * a.nv)

\* float `<=` on two distances
DistLE(a, b) ==
    /\ ~IsNaN(a)
    /\ ~IsNaN(b)
    /\ SignedSquare(a.num) * (b.nq * b.nv) >= SignedSquare(b.num) * (a.nq * a.nv)

\* float `== 0.0`
DistIsZero(d) == ~IsNaN(d) /\ d.num > 0 /\ d.num * d.num = d.nq * d.nv

(***************************************************************************)
(* list.sort(key=lambda x: x['distance']) as CPython sorts a list of fewer *)
(* than 64 elements: the leading run is found (and reversed when strictly  *)
(* descending), then the rest is placed by binary insertion.  Every        *)
(* comparison is key(x) < key(y).                                          *)
(***************************************************************************)
ISLT(x, y) == DistLT(x.distance, y.distance)

Reverse(s) == [i \in 1..Len(s) |-> s[Len(s) + 1 - i]]

\* count_run: length of the leading run and whether it is descending
count_run(s) ==
    IF Len(s) < 2 THEN [n |-> Len(s), descending |-> FALSE]
    ELSE LET desc == ISLT(s[2], s[1])
             n == CHOOSE k \in 2..Len(s) :
                     /\ \A i \in 3..k : ISLT(s[i], s[i - 1]) = desc
                     /\ (k = Len(s) \/ ISLT(s[k + 1], s[k]) # desc)
         IN [n |-> n, descending |-> desc]

\* the binary search of binarysort: s[1..r] is placed, l and r are 0-based
RECURSIVE bisect(_, _, _, _)
bisect(s, pivot, l, r) ==
    IF l >= r THEN l
    ELSE LET p == l + ((r - l) \div 2)
         IN IF ISLT(pivot, s[p + 1]) THEN bisect(s, pivot, l, p)
            ELSE bisect(s, pivot, p + 1, r)

\* binarysort: place s[start..] one by one into the sorted prefix
RECURSIVE binarysort(_, _)
binarysort(s, start) ==
    IF start > Len(s) THEN s
    ELSE LET pivot == s[start]
             l == bisect(s, pivot, 0, start - 1)
             placed == SubSeq(s, 1, l) \o <<pivot>> \o SubSeq(s, l + 1, start - 1)
                       \o SubSeq(s, start + 1, Len(s))
         IN binarysort(placed, start + 1)

sort(s) ==
    LET run == count_run(s)
        head == SubSeq(s, 1, run.n)
        lead == (IF run.descending THEN Reverse(head) ELSE head)
                \o SubSeq(s, run.n + 1, Len(s))
    IN binarysort(lead, run.n + 1)

(***************************************************************************)
(* The record store (pymongo Collection).  A document written by add has   *)
(* the fields id_, text, embedding, metadata; a training_data entry        *)
(* written by DataPopulator has no text and no embedding.                  *)
(***************************************************************************)
\* ids: <<"uuid", i>> is a value of uuid.uuid4(), <<"oid", i>> an ObjectId generated
\* for an insert_one

StoredIds(coll) == {coll[i].id_ : i \in 1..Len(coll)}

\* the value of a dotted field path in a document, None when it is missing
lookup(doc, path) ==
    IF path[1] \notin DOMAIN doc THEN None
    ELSE IF Len(path) = 1 THEN Some(doc[path[1]])
    ELSE IF HasKey(doc[path[1]], path[2]) THEN Some(Get(doc[path[1]], path[2]))
    ELSE None

\* one clause of a MongoDB filter: equality, or $regex with $options "i"
matches(doc, clause) ==
    LET field == lookup(doc, clause.path)
    IN /\ ~IsNone(field)
       /\ IF clause.op = "$eq" THEN field[1] = clause.value
          ELSE Contains(Lower(field[1]), Lower(clause.value))

\* a find that does not yet see the document written last
find_stale(coll, filter) ==
    SelectSeq(SubSeq(coll, 1, Len(coll) - 1),
              LAMBDA doc : \A clause \in filter : matches(doc, clause))

\* Collection.find(filter), materialised in scan order
find(coll, filter) == SelectSeq(coll, LAMBDA doc : \A clause \in filter : matches(doc, clause))

(***************************************************************************)
(* query, lines 74-82: the MongoDB filter of one query.                    *)
(***************************************************************************)
\* a filter that leaves the where clauses out
mongo_filter_without_where(where, where_document) ==
    IF HasKey(where_document, "$contains")
    THEN {[path |-> <<"document">>, op |-> "$regex",
           value |-> Get(where_document, "$contains")]}
    ELSE {}

mongo_filter(where, where_document) ==
    {[path |-> <<"metadata", kv[1]>>, op |-> "$eq", value |-> kv[2]] : kv \in where}
    \cup (IF HasKey(where_document, "$contains")
          THEN {[path |-> <<"document">>, op |-> "$regex",
                 value |-> Get(where_document, "$contains")]}
          ELSE {})

(***************************************************************************)
(* query, lines 95-122: similarities of the scanned documents, sorted and  *)
(* truncated.                                                              *)
(***************************************************************************)
RECURSIVE similarities(_, _)
similarities(query_vec, documents) ==
    IF Len(documents) = 0 THEN <<>>
    ELSE LET doc == Head(documents)
             rest == similarities(query_vec, Tail(documents))
         IN IF "embedding" \notin DOMAIN doc THEN rest
            ELSE <<[id |-> doc.id_,
                    distance |-> distance(query_vec, doc.embedding),
                    document |-> doc.text,
                    metadata |-> doc.metadata]>> \o rest

ranked(query_vec, documents, n_results) ==
    PySlice(sort(similarities(query_vec, documents)), n_results)

EmptyResults == [ids |-> <<>>, distances |-> <<>>, documents |-> <<>>, metadatas |-> <<>>]

\* an empty scan that appends nothing to distances
append_results_skipping_distances(res, documents, query_vec, n_results) ==
    IF Len(documents) = 0
    THEN [ids |-> Append(res.ids, <<>>),
          distances |-> res.distances,
          documents |-> Append(res.documents, <<>>),
          metadatas |-> Append(res.metadatas, <<>>)]
    ELSE LET s == ranked(query_vec, documents, n_results)
         IN [ids |-> Append(res.ids, [j \in 1..Len(s) |-> s[j].id]),
             distances |-> Append(res.distances, [j \in 1..Len(s) |-> s[j].distance]),
             documents |-> Append(res.documents, [j \in 1..Len(s) |-> s[j].document]),
             metadatas |-> Append(res.metadatas, [j \in 1..Len(s) |-> s[j].metadata])]

\* document texts taken from the similarities before they are sorted
append_results_unsorted_documents(res, documents, query_vec, n_results) ==
    IF Len(documents) = 0
    THEN [ids |-> Append(res.ids, <<>>),
          distances |-> Append(res.distances, <<>>),
          documents |-> Append(res.documents, <<>>),
          metadatas |-> Append(res.metadatas, <<>>)]
    ELSE LET s == ranked(query_vec, documents, n_results)
             u == PySlice(similarities(query_vec, documents), n_results)
         IN [ids |-> Append(res.ids, [j \in 1..Len(s) |-> s[j].id]),
             distances |-> Append(res.distances, [j \in 1..Len(s) |-> s[j].distance]),
             documents |-> Append(res.documents, [j \in 1..Len(s) |-> u[j].document]),
             metadatas |-> Append(res.metadatas, [j \in 1..Len(s) |-> s[j].metadata])]

\* an empty scan that goes on to the next query without appending anything
append_results_dropping_empty(res, documents, query_vec, n_results) ==
    IF Len(documents) = 0
    THEN res
    ELSE LET s == ranked(query_vec, documents, n_results)
         IN [ids |-> Append(res.ids, [j \in 1..Len(s) |-> s[j].id]),
             distances |-> Append(res.distances, [j \in 1..Len(s) |-> s[j].distance]),
             documents |-> Append(res.documents, [j \in 1..Len(s) |-> s[j].document]),
             metadatas |-> Append(res.metadatas, [j \in 1..Len(s) |-> s[j].metadata])]

\* lines 88-93 and 124-128: the four lists of one query, appended to results
append_results(res, documents, query_vec, n_results) ==
    IF Len(documents) = 0
    THEN [ids |-> Append(res.ids, <<>>),
          distances |-> Append(res.distances, <<>>),
          documents |-> Append(res.documents, <<>>),
          metadatas |-> Append(res.metadatas, <<>>)]
    ELSE LET s == ranked(query_vec, documents, n_results)
         IN [ids |-> Append(res.ids, [j \in 1..Len(s) |-> s[j].id]),
             distances |-> Append(res.distances, [j \in 1..Len(s) |-> s[j].distance]),
             documents |-> Append(res.documents, [j \in 1..Len(s) |-> s[j].document]),
             metadatas |-> Append(res.metadatas, [j \in 1..Len(s) |-> s[j].metadata])]

(***************************************************************************)
(* The database around the collection: the client, the collection objects  *)
(* it hands out and the other collections.                                 *)
(***************************************************************************)
\* the collections of the database
CollectionNames == {"training_data_embeddings", "training_data"}

\* the callers of DataPopulator.save_training_data
MaxCallers == 2
Callers == 1..MaxCallers

\* the state outside the MongoVectorCollection the calls are made on
other_vars == <<client, collections, self, db, added, saves, request, embed>>

InitOther ==
    /\ client = [embedding_function |-> embedding_function]
    /\ collections = <<>>
    /\ self = 0
    /\ db = [name \in CollectionNames |-> <<>>]
    /\ added = {}
    /\ saves = [p \in Callers |-> [pc |-> "idle"]]
    /\ request = [pc |-> "idle", question |-> <<>>, context |-> <<>>, llm |-> <<>>,
                  response |-> None]
    /\ embed = [pc |-> "idle", docs_list |-> <<>>, response |-> None]

(***************************************************************************)
(* Initial state: an empty collection, no call in progress.                *)
(***************************************************************************)
Init ==
    /\ store = <<>>
    /\ embedding_function = "bound"
    /\ apc = "idle"
    /\ docs_to_insert = <<>>
    /\ inserted = 0
    /\ add_error = ""
    /\ aargs = <<>>
    /\ encoded = <<>>
    /\ qpc = "idle"
    /\ qargs = <<>>
    /\ query_embeddings = <<>>
    /\ qi = 1
    /\ results = EmptyResults
    /\ query_error = ""
    /\ scan = None
    /\ written = {}
    /\ prev_ids = None
    /\ InitOther

add_vars == <<apc, docs_to_insert, inserted, add_error, aargs, encoded>>
query_vars == <<qpc, qargs, query_embeddings, qi, results, query_error, scan, prev_ids>>

(***************************************************************************)
(* MongoVectorCollection.add, lines 13-45: validation, embedding,          *)
(* defaulting and the construction of docs_to_insert.                      *)
(***************************************************************************)
\* one value of uuid.uuid4() used for every record of the call
uuid4s_once(n) == {[i \in 1..n |-> <<"uuid", Len(store) + 1>>]}

\* line 30: n values of uuid.uuid4(), unique among themselves and among all values
\* generated before (the i-th value generated for a collection of c documents)
uuid4s(n) == {[i \in 1..n |-> <<"uuid", Len(store) + i>>]}

\* a numpy array and a plain Python list of the same numbers
ndarray(v) == <<"ndarray", v>>
pylist(v) == <<"list", v>>

\* line 43: embedding.tolist(), an attribute of numpy arrays only
has_tolist(embedding) == embedding[1] = "ndarray"
tolist(embedding) == embedding[2]

\* line 39: zip(documents, embeddings, metadatas, ids) stops at the shortest
zip_docs(documents, embeddings, metadatas, ids) ==
    [i \in 1..Min2(Min2(Len(documents), Len(embeddings)), Min2(Len(metadatas), Len(ids))) |->
        [id_ |-> ids[i], text |-> documents[i],
         embedding |-> tolist(embeddings[i]), metadata |-> metadatas[i]]]

add_raise(error) ==
    /\ apc' = "raised"
    /\ add_error' = error
    /\ docs_to_insert' = <<>>
    /\ inserted' = 0

\* add without lines 20-21: line 30 then iterates over None
add_without_input_check(documents, embeddings, metadatas, ids) ==
    /\ apc \in {"idle", "returned", "raised"}
    /\ aargs' = [documents |-> documents, embeddings |-> embeddings,
                 metadatas |-> metadatas, ids |-> ids]
    /\ encoded' = IF IsNone(embeddings) /\ ~IsNone(documents) /\ embedding_function # "None"
                  THEN encode_calls(documents[1]) ELSE <<>>
    /\ IF IsNone(documents) /\ IsNone(embeddings)
       THEN add_raise("TypeError: 'NoneType' object is not iterable")
       ELSE IF IsNone(embeddings) /\ embedding_function = "None"
       THEN add_raise("ValueError: No embedding function provided")
       ELSE IF IsNone(embeddings) /\ \E i \in 1..Len(documents[1]) : encode_fails(documents[1][i])
       THEN add_raise(EncodeError)
       ELSE LET embs == IF IsNone(embeddings)
                        THEN [i \in 1..Len(documents[1]) |->
                                 ndarray(encode(documents[1][i]))]
                        ELSE embeddings[1]
                \* (documents or embeddings)
                n == IF ~IsNone(documents) /\ Len(documents[1]) > 0
                     THEN Len(documents[1]) ELSE Len(embs)
                metas == IF IsNone(metadatas) THEN [i \in 1..n |-> {}] ELSE metadatas[1]
                docs == IF IsNone(documents) THEN [i \in 1..Len(embs) |-> <<>>]
                        ELSE documents[1]
            IN \E generated \in (IF IsNone(ids) THEN uuid4s(n) ELSE {ids[1]}) :
                 LET batch == zip_docs(docs, embs, metas, generated)
                 IN /\ Len(store) + Len(batch) <= MaxStore
                    /\ IF \E i \in 1..Len(batch) : ~has_tolist(embs[i])
                       THEN add_raise("AttributeError: 'list' object has no attribute 'tolist'")
                       ELSE IF Len(batch) = 0
                       THEN add_raise("TypeError: documents must be a non-empty list")
                       ELSE /\ apc' = "insert_many"
                            /\ add_error' = ""
                            /\ docs_to_insert' = batch
                            /\ inserted' = 0
    /\ UNCHANGED <<store, embedding_function, written>>
    /\ UNCHANGED query_vars
    /\ UNCHANGED other_vars

\* add without lines 25-26: the documents are embedded whether or not a function is bound
add_without_function_check(documents, embeddings, metadatas, ids) ==
    /\ apc \in {"idle", "returned", "raised"}
    /\ aargs' = [documents |-> documents, embeddings |-> embeddings,
                 metadatas |-> metadatas, ids |-> ids]
    /\ encoded' = IF IsNone(embeddings) /\ ~IsNone(documents) /\ embedding_function # "None"
                  THEN encode_calls(documents[1]) ELSE <<>>
    /\ IF IsNone(documents) /\ IsNone(embeddings)
       THEN add_raise("ValueError: Either documents or embeddings must be provided")
       ELSE IF IsNone(embeddings) /\ \E i \in 1..Len(documents[1]) : encode_fails(documents[1][i])
       THEN add_raise(EncodeError)
       ELSE LET embs == IF IsNone(embeddings)
                        THEN [i \in 1..Len(documents[1]) |->
                                 ndarray(encode(documents[1][i]))]
                        ELSE embeddings[1]
                \* (documents or embeddings)
                n == IF ~IsNone(documents) /\ Len(documents[1]) > 0
                     THEN Len(documents[1]) ELSE Len(embs)
                metas == IF IsNone(metadatas) THEN [i \in 1..n |-> {}] ELSE metadatas[1]
                docs == IF IsNone(documents) THEN [i \in 1..Len(embs) |-> <<>>]
                        ELSE documents[1]
            IN \E generated \in (IF IsNone(ids) THEN uuid4s(n) ELSE {ids[1]}) :
                 LET batch == zip_docs(docs, embs, metas, generated)
                 IN /\ Len(store) + Len(batch) <= MaxStore
                    /\ IF \E i \in 1..Len(batch) : ~has_tolist(embs[i])
                       THEN add_raise("AttributeError: 'list' object has no attribute 'tolist'")
                       ELSE IF Len(batch) = 0
                       THEN add_raise("TypeError: documents must be a non-empty list")
                       ELSE /\ apc' = "insert_many"
                            /\ add_error' = ""
                            /\ docs_to_insert' = batch
                            /\ inserted' = 0
    /\ UNCHANGED <<store, embedding_function, written>>
    /\ UNCHANGED query_vars
    /\ UNCHANGED other_vars

\* add that goes on with the batch when encode failed on a document
add_skipping_encode_failures(documents, embeddings, metadatas, ids) ==
    /\ apc \in {"idle", "returned", "raised"}
    /\ aargs' = [documents |-> documents, embeddings |-> embeddings,
                 metadatas |-> metadatas, ids |-> ids]
    /\ encoded' = IF IsNone(embeddings) /\ ~IsNone(documents) /\ embedding_function # "None"
                  THEN encode_calls(documents[1]) ELSE <<>>
    /\ IF IsNone(documents) /\ IsNone(embeddings)
       THEN add_raise("ValueError: Either documents or embeddings must be provided")
       ELSE IF IsNone(embeddings) /\ embedding_function = "None"
       THEN add_raise("ValueError: No embedding function provided")
       ELSE LET embs == IF IsNone(embeddings)
                        THEN [i \in 1..Len(documents[1]) |->
                                 ndarray(encode(documents[1][i]))]
                        ELSE embeddings[1]
                \* (documents or embeddings)
                n == IF ~IsNone(documents) /\ Len(documents[1]) > 0
                     THEN Len(documents[1]) ELSE Len(embs)
                metas == IF IsNone(metadatas) THEN [i \in 1..n |-> {}] ELSE metadatas[1]
                docs == IF IsNone(documents) THEN [i \in 1..Len(embs) |-> <<>>]
                        ELSE documents[1]
            IN \E generated \in (IF IsNone(ids) THEN uuid4s(n) ELSE {ids[1]}) :
                 LET batch == zip_docs(docs, embs, metas, generated)
                 IN /\ Len(store) + Len(batch) <= MaxStore
                    /\ IF \E i \in 1..Len(batch) : ~has_tolist(embs[i])
                       THEN add_raise("AttributeError: 'list' object has no attribute 'tolist'")
                       ELSE IF Len(batch) = 0
                       THEN add_raise("TypeError: documents must be a non-empty list")
                       ELSE /\ apc' = "insert_many"
                            /\ add_error' = ""
                            /\ docs_to_insert' = batch
                            /\ inserted' = 0
    /\ UNCHANGED <<store, embedding_function, written>>
    /\ UNCHANGED query_vars
    /\ UNCHANGED other_vars

add(documents, embeddings, metadatas, ids) ==
    /\ apc \in {"idle", "returned", "raised"}
    /\ aargs' = [documents |-> documents, embeddings |-> embeddings,
                 metadatas |-> metadatas, ids |-> ids]
    /\ encoded' = IF IsNone(embeddings) /\ ~IsNone(documents) /\ embedding_function # "None"
                  THEN encode_calls(documents[1]) ELSE <<>>
    /\ IF IsNone(documents) /\ IsNone(embeddings)
       THEN add_raise("ValueError: Either documents or embeddings must be provided")
       ELSE IF IsNone(embeddings) /\ embedding_function = "None"
       THEN add_raise("ValueError: No embedding function provided")
       ELSE IF IsNone(embeddings) /\ \E i \in 1..Len(documents[1]) : encode_fails(documents[1][i])
       THEN add_raise(EncodeError)
       ELSE LET embs == IF IsNone(embeddings)
                        THEN [i \in 1..Len(documents[1]) |->
                                 ndarray(encode(documents[1][i]))]
                        ELSE embeddings[1]
                \* (documents or embeddings)
                n == IF ~IsNone(documents) /\ Len(documents[1]) > 0
                     THEN Len(documents[1]) ELSE Len(embs)
                metas == IF IsNone(metadatas) THEN [i \in 1..n |-> {}] ELSE metadatas[1]
                docs == IF IsNone(documents) THEN [i \in 1..Len(embs) |-> <<>>]
                        ELSE documents[1]
            IN \E generated \in (IF IsNone(ids) THEN uuid4s(n) ELSE {ids[1]}) :
                 LET batch == zip_docs(docs, embs, metas, generated)
                 IN /\ Len(store) + Len(batch) <= MaxStore
                    /\ IF \E i \in 1..Len(batch) : ~has_tolist(embs[i])
                       THEN add_raise("AttributeError: 'list' object has no attribute 'tolist'")
                       ELSE IF Len(batch) = 0
                       THEN add_raise("TypeError: documents must be a non-empty list")
                       ELSE /\ apc' = "insert_many"
                            /\ add_error' = ""
                            /\ docs_to_insert' = batch
                            /\ inserted' = 0
    /\ UNCHANGED <<store, embedding_function, written>>
    /\ UNCHANGED query_vars
    /\ UNCHANGED other_vars

(***************************************************************************)
(* add, line 47: insert_many writes the batch in order, one document at a  *)
(* time; a duplicate _id stops the write with a BulkWriteError and keeps   *)
(* the documents written before it.                                        *)
(***************************************************************************)
\* a store that has no unique index on _id and keeps duplicate rows
insert_many_without_unique_index ==
    /\ apc = "insert_many"
    /\ LET doc == docs_to_insert[inserted + 1]
       IN IF FALSE
          THEN /\ apc' = "raised"
               /\ add_error' = "BulkWriteError"
               /\ UNCHANGED <<store, written, docs_to_insert, inserted, aargs, encoded>>
          ELSE /\ store' = Append(store, doc)
               /\ inserted' = inserted + 1
               /\ add_error' = ""
               /\ UNCHANGED <<docs_to_insert, aargs, encoded>>
               /\ IF inserted + 1 = Len(docs_to_insert)
                  THEN /\ apc' = "returned"
                       /\ written' = written \cup StoredIds(docs_to_insert)
                  ELSE /\ apc' = "insert_many"
                       /\ UNCHANGED written
    /\ UNCHANGED embedding_function
    /\ UNCHANGED query_vars
    /\ UNCHANGED other_vars

\* a write that goes to every collection of the database
insert_many_into_every_collection ==
    /\ apc = "insert_many"
    /\ LET doc == docs_to_insert[inserted + 1]
       IN IF doc.id_ \in StoredIds(store)
          THEN /\ apc' = "raised"
               /\ add_error' = "BulkWriteError"
               /\ UNCHANGED <<store, written, docs_to_insert, inserted, aargs, encoded>>
          ELSE /\ store' = Append(store, doc)
               /\ inserted' = inserted + 1
               /\ add_error' = ""
               /\ UNCHANGED <<docs_to_insert, aargs, encoded>>
               /\ IF inserted + 1 = Len(docs_to_insert)
                  THEN /\ apc' = "returned"
                       /\ written' = written \cup StoredIds(docs_to_insert)
                  ELSE /\ apc' = "insert_many"
                       /\ UNCHANGED written
    /\ UNCHANGED embedding_function
    /\ UNCHANGED query_vars
    /\ db' = [name \in CollectionNames |->
                 IF store' # store THEN Append(db[name], docs_to_insert[inserted + 1])
                 ELSE db[name]]
    /\ UNCHANGED <<client, collections, self, added, saves, request, embed>>

insert_many ==
    /\ apc = "insert_many"
    /\ LET doc == docs_to_insert[inserted + 1]
       IN IF doc.id_ \in StoredIds(store)
          THEN /\ apc' = "raised"
               /\ add_error' = "BulkWriteError"
               /\ UNCHANGED <<store, written, docs_to_insert, inserted, aargs, encoded>>
          ELSE /\ store' = Append(store, doc)
               /\ inserted' = inserted + 1
               /\ add_error' = ""
               /\ UNCHANGED <<docs_to_insert, aargs, encoded>>
               /\ IF inserted + 1 = Len(docs_to_insert)
                  THEN /\ apc' = "returned"
                       /\ written' = written \cup StoredIds(docs_to_insert)
                  ELSE /\ apc' = "insert_many"
                       /\ UNCHANGED written
    /\ UNCHANGED embedding_function
    /\ UNCHANGED query_vars
    /\ UNCHANGED other_vars

(***************************************************************************)
(* DataPopulator.save_training_data, insert_one: another writer of the     *)
(* same database puts an entry without text and embedding in the           *)
(* collection.                                                             *)
(***************************************************************************)
insert_one(oid, prompt, metadata) ==
    /\ Len(store) < MaxStore
    /\ oid \notin StoredIds(store)
    /\ store' = Append(store, [id_ |-> oid, prompt |-> prompt, metadata |-> metadata])
    /\ UNCHANGED <<embedding_function, written>>
    /\ UNCHANGED add_vars
    /\ UNCHANGED query_vars
    /\ UNCHANGED other_vars

(***************************************************************************)
(* MongoVectorCollection.query, lines 49-70: validation, embedding of the  *)
(* query texts, empty results.                                             *)
(***************************************************************************)
\* a query that scans the collection before it looks at its arguments
query_call_scanning_first(query_texts, query_embeddings_arg, n_results, where, where_document) ==
    /\ qargs' = [query_texts |-> query_texts, query_embeddings |-> query_embeddings_arg,
                 n_results |-> n_results, where |-> where,
                 where_document |-> where_document]
    /\ scan' = Some(find(store, mongo_filter(where, where_document)))
    /\ IF ~IsNone(query_texts) /\ embedding_function = "None"
       THEN /\ qpc' = "raised"
            /\ query_error' = "ValueError: No embedding function provided"
            /\ UNCHANGED <<query_embeddings, qi, results>>
       ELSE IF IsNone(query_texts) /\ IsNone(query_embeddings_arg)
       THEN /\ qpc' = "raised"
            /\ query_error' = "ValueError: Either query_texts or query_embeddings must be provided"
            /\ UNCHANGED <<query_embeddings, qi, results>>
       ELSE /\ qpc' = "loop"
            /\ query_error' = ""
            /\ query_embeddings' =
                  IF ~IsNone(query_texts)
                  THEN [i \in 1..Len(query_texts[1]) |-> encode(query_texts[1][i])]
                  ELSE query_embeddings_arg[1]
            /\ qi' = 1
            /\ results' = EmptyResults
    /\ UNCHANGED <<store, embedding_function, written>>
    /\ UNCHANGED add_vars
    /\ UNCHANGED other_vars


\* a query that asks for the embedding function whether or not it has texts to embed
query_call_requiring_function(query_texts, query_embeddings_arg, n_results, where, where_document) ==
    /\ qargs' = [query_texts |-> query_texts, query_embeddings |-> query_embeddings_arg,
                 n_results |-> n_results, where |-> where,
                 where_document |-> where_document]
    /\ scan' = None
    /\ IF embedding_function = "None"
       THEN /\ qpc' = "raised"
            /\ query_error' = "ValueError: No embedding function provided"
            /\ UNCHANGED <<query_embeddings, qi, results>>
       ELSE IF IsNone(query_texts) /\ IsNone(query_embeddings_arg)
       THEN /\ qpc' = "raised"
            /\ query_error' = "ValueError: Either query_texts or query_embeddings must be provided"
            /\ UNCHANGED <<query_embeddings, qi, results>>
       ELSE /\ qpc' = "loop"
            /\ query_error' = ""
            /\ query_embeddings' =
                  IF ~IsNone(query_texts)
                  THEN [i \in 1..Len(query_texts[1]) |-> encode(query_texts[1][i])]
                  ELSE query_embeddings_arg[1]
            /\ qi' = 1
            /\ results' = EmptyResults
    /\ UNCHANGED <<store, embedding_function, written>>
    /\ UNCHANGED add_vars
    /\ UNCHANGED other_vars


query_call(query_texts, query_embeddings_arg, n_results, where, where_document) ==
    /\ qargs' = [query_texts |-> query_texts, query_embeddings |-> query_embeddings_arg,
                 n_results |-> n_results, where |-> where,
                 where_document |-> where_document]
    /\ scan' = None
    /\ IF ~IsNone(query_texts) /\ embedding_function = "None"
       THEN /\ qpc' = "raised"
            /\ query_error' = "ValueError: No embedding function provided"
            /\ UNCHANGED <<query_embeddings, qi, results>>
       ELSE IF IsNone(query_texts) /\ IsNone(query_embeddings_arg)
       THEN /\ qpc' = "raised"
            /\ query_error' = "ValueError: Either query_texts or query_embeddings must be provided"
            /\ UNCHANGED <<query_embeddings, qi, results>>
       ELSE /\ qpc' = "loop"
            /\ query_error' = ""
            /\ query_embeddings' =
                  IF ~IsNone(query_texts)
                  THEN [i \in 1..Len(query_texts[1]) |-> encode(query_texts[1][i])]
                  ELSE query_embeddings_arg[1]
            /\ qi' = 1
            /\ results' = EmptyResults
    /\ UNCHANGED <<store, embedding_function, written>>
    /\ UNCHANGED add_vars
    /\ UNCHANGED other_vars

query(query_texts, query_embeddings_arg, n_results, where, where_document) ==
    /\ qpc = "idle"
    /\ query_call(query_texts, query_embeddings_arg, n_results, where, where_document)
    /\ prev_ids' = None

\* the caller repeats the call that has just returned, with the same arguments
query_again ==
    /\ qpc = "returned"
    /\ IsNone(prev_ids)
    /\ query_call(qargs.query_texts, qargs.query_embeddings, qargs.n_results,
                  qargs.where, qargs.where_document)
    /\ prev_ids' = Some(results.ids)

(***************************************************************************)
(* query, lines 72-128: one iteration of the loop over the query vectors.  *)
(***************************************************************************)
\* a scan that takes the documents it finds out of the collection
query_loop_deleting_scanned ==
    /\ qpc = "loop"
    /\ qi <= Len(query_embeddings)
    /\ LET documents == find(store, mongo_filter(qargs.where, qargs.where_document))
       IN /\ scan' = Some(documents)
          /\ results' = append_results(results, documents, query_embeddings[qi],
                                       qargs.n_results)
    /\ qi' = qi + 1
    /\ store' = SelectSeq(store, LAMBDA doc : \A n \in 1..Len(scan'[1]) : scan'[1][n] # doc)
    /\ UNCHANGED <<embedding_function, written, qpc, qargs, query_embeddings,
                   query_error, prev_ids>>
    /\ UNCHANGED add_vars
    /\ UNCHANGED other_vars

\* a scan that also returns the documents of a batch that are not written yet
query_loop_reading_unwritten ==
    /\ qpc = "loop"
    /\ qi <= Len(query_embeddings)
    /\ LET documents == find(store \o SubSeq(docs_to_insert, inserted + 1,
                                             Len(docs_to_insert)),
                             mongo_filter(qargs.where, qargs.where_document))
       IN /\ scan' = Some(documents)
          /\ results' = append_results(results, documents, query_embeddings[qi],
                                       qargs.n_results)
    /\ qi' = qi + 1
    /\ UNCHANGED <<store, embedding_function, written, qpc, qargs, query_embeddings,
                   query_error, prev_ids>>
    /\ UNCHANGED add_vars
    /\ UNCHANGED other_vars

query_loop ==
    /\ qpc = "loop"
    /\ qi <= Len(query_embeddings)
    /\ LET documents == find(store, mongo_filter(qargs.where, qargs.where_document))
       IN /\ scan' = Some(documents)
          /\ results' = append_results(results, documents, query_embeddings[qi],
                                       qargs.n_results)
    /\ qi' = qi + 1
    /\ UNCHANGED <<store, embedding_function, written, qpc, qargs, query_embeddings,
                   query_error, prev_ids>>
    /\ UNCHANGED add_vars
    /\ UNCHANGED other_vars

\* line 130: return results
query_return ==
    /\ qpc = "loop"
    /\ qi > Len(query_embeddings)
    /\ qpc' = "returned"
    /\ UNCHANGED <<store, embedding_function, written, qargs, query_embeddings, qi,
                   results, query_error, scan, prev_ids>>
    /\ UNCHANGED add_vars
    /\ UNCHANGED other_vars

\* the caller drops the result (or the exception) of the finished call
query_done ==
    /\ qpc \in {"returned", "raised"}
    /\ qpc' = "idle"
    /\ qargs' = <<>>
    /\ query_embeddings' = <<>>
    /\ qi' = 1
    /\ results' = EmptyResults
    /\ query_error' = ""
    /\ scan' = None
    /\ prev_ids' = None
    /\ UNCHANGED <<store, embedding_function, written>>
    /\ UNCHANGED add_vars
    /\ UNCHANGED other_vars

(***************************************************************************)
(* Inputs of the calls.                                                    *)
(***************************************************************************)
SeqsOf(S, lens) == UNION {[1..n -> S] : n \in lens}

Vectors == {<<0, 0>>, <<1, 0>>, <<1, 1>>, <<-1, 0>>}
Prompt == <<"a">>

(***************************************************************************)
(* Spec: one client calls add and query one after the other on a           *)
(* collection that other writers of the database also insert into; no      *)
(* filter is used.                                                         *)
(***************************************************************************)
AddDocuments ==
    /\ qpc = "idle"
    /\ \E t \in Texts : add(Some(<<t>>), None, None, None)

AddEmbeddings ==
    /\ qpc = "idle"
    /\ \E e \in SeqsOf(Vectors, 1..MaxAdd) :
          add(None, Some([i \in 1..Len(e) |-> ndarray(e[i])]), None, None)

InsertOne ==
    /\ qpc = "idle"
    /\ apc # "insert_many"
    /\ insert_one(<<"oid", Len(store) + 1>>, Prompt, {})

QueryTexts ==
    /\ apc # "insert_many"
    /\ \E t \in Texts, k \in 0..MaxK : query(Some(<<t>>), None, k, {}, {})

QueryEmbeddings ==
    /\ apc # "insert_many"
    /\ \E q \in SeqsOf(Vectors, 0..MaxQueries), k \in 0..MaxK :
          query(None, Some(q), k, {}, {})

Next ==
    \/ AddDocuments
    \/ AddEmbeddings
    \/ insert_many
    \/ InsertOne
    \/ QueryTexts
    \/ QueryEmbeddings
    \/ query_again
    \/ query_loop
    \/ query_return
    \/ query_done

Spec == Init /\ [][Next]_vars

(***************************************************************************)
(* SpecFilter: documents carry metadata and the queries filter with where  *)
(* and where_document.                                                     *)
(***************************************************************************)
X == <<"x">>
Y == <<"y">>
A == <<"a">>
Metadatas == {{}, {<<"category", X>>}, {<<"category", Y>>},
              {<<"category", X>>, <<"source", A>>}}
Wheres == {{}, {<<"category", X>>}, {<<"category", X>>, <<"source", A>>}}
WhereDocuments == {{}, {<<"$contains", <<"A">>>>}}

FilterStore == 2    \* records in the collection
FilterQueries == 2  \* query texts of one query call
FilterK == 2        \* largest n_results

AddWithMetadata ==
    /\ qpc = "idle"
    /\ Len(store) < FilterStore
    /\ \E t \in Texts, m \in Metadatas : add(Some(<<t>>), None, Some(<<m>>), None)

\* one call that writes a batch of two documents
AddBatch ==
    /\ qpc = "idle"
    /\ Len(store) + 2 <= FilterStore
    /\ \E t1, t2 \in Texts : add(Some(<<t1, t2>>), None, None, None)

InsertOneWithMetadata ==
    /\ qpc = "idle"
    /\ Len(store) < FilterStore
    /\ apc # "insert_many"
    /\ \E m \in {{}, {<<"category", X>>}} : insert_one(<<"oid", Len(store) + 1>>, Prompt, m)

QueryWhere ==
    /\ apc # "insert_many"
    /\ \E ts \in SeqsOf(Texts, 1..FilterQueries), k \in 0..FilterK,
          w \in Wheres, wd \in WhereDocuments :
          query(Some(ts), None, k, w, wd)

NextFilter ==
    \/ AddWithMetadata
    \/ AddBatch
    \/ insert_many
    \/ InsertOneWithMetadata
    \/ QueryWhere
    \/ query_loop
    \/ query_return
    \/ query_done

SpecFilter == Init /\ [][NextFilter]_vars

(***************************************************************************)
(* SpecSort: queries on a collection that already holds SortLen raw        *)
(* vectors.                                                                *)
(***************************************************************************)
SortLen == 7
SortVectors == {<<0, 0>>, <<1, 0>>, <<1, 1>>}

InitSort ==
    /\ store \in {[i \in 1..SortLen |->
                     [id_ |-> <<"uuid", i>>, text |-> <<>>,
                      embedding |-> e[i], metadata |-> {}]] :
                  e \in [1..SortLen -> SortVectors]}
    /\ embedding_function = "bound"
    /\ apc = "idle"
    /\ docs_to_insert = <<>>
    /\ inserted = 0
    /\ add_error = ""
    /\ aargs = <<>>
    /\ encoded = <<>>
    /\ qpc = "idle"
    /\ qargs = <<>>
    /\ query_embeddings = <<>>
    /\ qi = 1
    /\ results = EmptyResults
    /\ query_error = ""
    /\ scan = None
    /\ written = StoredIds(store)
    /\ prev_ids = None
    /\ InitOther

QuerySort == query(None, Some(<<<<1, 0>>>>), SortLen, {}, {})

NextSort ==
    \/ QuerySort
    \/ query_again
    \/ query_loop
    \/ query_return
    \/ query_done

SpecSort == InitSort /\ [][NextSort]_vars

(***************************************************************************)
(* SpecAdd: add is called with every combination of supplied and omitted   *)
(* arguments, of equal and of different lengths, with numpy arrays and     *)
(* plain lists as vectors, and with caller ids that repeat.                *)
(***************************************************************************)
AddLen == 2         \* elements of one argument of add

DocumentsOf(n) == [i \in 1..n |-> IF i % 2 = 1 THEN TextAb ELSE TextB]
MetadatasOf(n) == [i \in 1..n |-> IF i % 2 = 1 THEN {<<"category", X>>}
                                  ELSE {<<"category", Y>>}]
\* n numpy arrays, or n vectors the last of which is a plain list
EmbeddingsOf(n, last) == [i \in 1..n |-> IF i = n /\ last = "list" THEN pylist(<<1, i % 2>>)
                                         ELSE ndarray(<<1, i % 2>>)]
\* n distinct ids, or n ids the last of which repeats the first
IdsOf(n, repeat) == [i \in 1..n |-> <<"id", IF repeat /\ i = n THEN 1 ELSE i>>]

DocumentsArgs == {None} \cup {Some(DocumentsOf(n)) : n \in 0..AddLen}
EmbeddingsArgs == {None} \cup {Some(EmbeddingsOf(n, last)) :
                                  n \in 1..AddLen, last \in {"ndarray", "list"}}
MetadatasArgs == {None} \cup {Some(MetadatasOf(n)) : n \in 1..AddLen}
IdsArgs == {None} \cup {Some(IdsOf(n, repeat)) : n \in 1..AddLen, repeat \in BOOLEAN}

\* a call is made while the collection has room for AddLen more records
AddCall ==
    /\ Len(store) + AddLen <= MaxStore
    /\ \E documents \in DocumentsArgs, embeddings \in EmbeddingsArgs,
          metadatas \in MetadatasArgs, ids \in IdsArgs :
          add(documents, embeddings, metadatas, ids)

NextAdd ==
    \/ AddCall
    \/ insert_many

SpecAdd == Init /\ [][NextAdd]_vars

(***************************************************************************)
(* SpecErrors: add and query on a collection created with or without an    *)
(* embedding function, with texts, with vectors, with both and with        *)
(* neither.                                                                *)
(***************************************************************************)
QueryTextsArgs == {None} \cup {Some(DocumentsOf(n)) : n \in 1..AddLen}
QueryEmbeddingsArgs == {None} \cup {Some([i \in 1..n |-> <<1, i % 2>>]) : n \in 1..AddLen}

InitErrors ==
    /\ store = <<>>
    /\ embedding_function \in {"bound", "None"}
    /\ apc = "idle"
    /\ docs_to_insert = <<>>
    /\ inserted = 0
    /\ add_error = ""
    /\ aargs = <<>>
    /\ encoded = <<>>
    /\ qpc = "idle"
    /\ qargs = <<>>
    /\ query_embeddings = <<>>
    /\ qi = 1
    /\ results = EmptyResults
    /\ query_error = ""
    /\ scan = None
    /\ written = {}
    /\ prev_ids = None
    /\ InitOther

AddTextsOrVectors ==
    /\ qpc = "idle"
    /\ Len(store) + AddLen <= MaxStore
    /\ \E documents \in DocumentsArgs,
          embeddings \in {None} \cup {Some(EmbeddingsOf(n, "ndarray")) : n \in 1..AddLen} :
          add(documents, embeddings, None, None)

QueryTextsOrVectors ==
    /\ apc # "insert_many"
    /\ \E query_texts \in QueryTextsArgs, query_vectors \in QueryEmbeddingsArgs :
          query(query_texts, query_vectors, AddLen, {}, {})

NextErrors ==
    \/ AddTextsOrVectors
    \/ insert_many
    \/ QueryTextsOrVectors
    \/ query_loop
    \/ query_return
    \/ query_done

SpecErrors == InitErrors /\ [][NextErrors]_vars

(***************************************************************************)
(* SpecClient: one MongoVectorClient hands out collection objects by name, *)
(* and add and query are called on one object after the other.             *)
(***************************************************************************)
MaxCollections == 2     \* objects made by get_or_create_collection
ClientStore == 2        \* records in one collection

\* MongoVectorCollection.__init__: the object keeps the name of its collection and
\* the embedding function it is given (self.collection is db[collection_name])
MongoVectorCollection(collection_name, function) ==
    [collection_name |-> collection_name, embedding_function |-> function]

\* an object made without handing the embedding function of the client on
get_or_create_collection_without_function(name) ==
    /\ Len(collections) < MaxCollections
    /\ collections' = Append(collections, MongoVectorCollection(name, "None"))
    /\ UNCHANGED <<store, embedding_function, written, client, self, db, added, saves,
                   request, embed>>
    /\ UNCHANGED add_vars
    /\ UNCHANGED query_vars

\* MongoVectorClient.get_or_create_collection, lines 164-166
get_or_create_collection(name) ==
    /\ Len(collections) < MaxCollections
    /\ collections' = Append(collections,
                             MongoVectorCollection(name, client.embedding_function))
    /\ UNCHANGED <<store, embedding_function, written, client, self, db, added, saves,
                   request, embed>>
    /\ UNCHANGED add_vars
    /\ UNCHANGED query_vars

\* the name of the collection of the object the calls are made on
CurrentName == IF self = 0 THEN "training_data_embeddings"
               ELSE collections[self].collection_name

\* the documents of the collection of a name
Content(name) == IF name = CurrentName THEN store ELSE db[name]

\* the caller turns to the object i: from now on self.collection is the collection
\* of its name and self.embedding_function its embedding function; the documents
\* found in the collection left behind are noted as written through the object
\* left behind, unless they are noted already
call_on(i) ==
    /\ apc # "insert_many"
    /\ qpc = "idle"
    /\ i # self
    /\ self' = i
    /\ db' = [db EXCEPT ![CurrentName] = store]
    /\ store' = db'[collections[i].collection_name]
    /\ embedding_function' = collections[i].embedding_function
    /\ added' = added \cup
                 {<<self, CurrentName, store[n]>> :
                    n \in {n \in 1..Len(store) :
                             \A e \in added : ~(e[2] = CurrentName /\ e[3] = store[n])}}
    /\ UNCHANGED <<written, client, collections, saves, request, embed>>
    /\ UNCHANGED add_vars
    /\ UNCHANGED query_vars

GetOrCreateCollection == \E name \in CollectionNames : get_or_create_collection(name)

CallOn == \E i \in 1..Len(collections) : call_on(i)

ClientAdd ==
    /\ qpc = "idle"
    /\ Len(store) < ClientStore
    /\ \E t \in Texts : add(Some(<<t>>), None, None, None)

ClientQuery ==
    /\ apc # "insert_many"
    /\ \E t \in Texts : query(Some(<<t>>), None, ClientStore, {}, {})

NextClient ==
    \/ GetOrCreateCollection
    \/ CallOn
    \/ ClientAdd
    \/ insert_many
    \/ ClientQuery
    \/ query_loop
    \/ query_return
    \/ query_done

SpecClient == Init /\ [][NextClient]_vars

(***************************************************************************)
(* SpecEncode: add calls whose documents include one the embedding         *)
(* function fails on, with and without embeddings.                         *)
(***************************************************************************)
EncodeLen == 2          \* documents of one add call

EncodeDocuments ==
    UNION {[1..n -> Texts \cup {Unencodable}] : n \in 1..EncodeLen}

AddEncoding ==
    /\ qpc = "idle"
    /\ Len(store) + EncodeLen <= MaxStore
    /\ \E documents \in EncodeDocuments :
          \E embeddings \in {None, Some([i \in 1..Len(documents) |-> ndarray(<<1, i>>)])} :
              add(Some(documents), embeddings, None, None)

NextEncode ==
    \/ AddEncoding
    \/ insert_many

SpecEncode == Init /\ [][NextEncode]_vars

(***************************************************************************)
(* SpecRace: one caller adds to a collection while another queries it; the *)
(* documents of a batch are written one at a time and every query of a     *)
(* query call scans the collection at a moment of its own.                 *)
(***************************************************************************)
RaceQueries == 2        \* query texts of one query call

RaceAdd ==
    /\ Len(store) + AddLen <= MaxStore
    /\ \E documents \in UNION {[1..n -> Texts] : n \in 1..AddLen} :
          add(Some(documents), None, None, None)

RaceQuery ==
    \E query_texts \in UNION {[1..n -> Texts] : n \in 1..RaceQueries} :
        query(Some(query_texts), None, MaxStore, {}, {})

NextRace ==
    \/ RaceAdd
    \/ insert_many
    \/ RaceQuery
    \/ query_loop
    \/ query_return
    \/ query_done

SpecRace == Init /\ [][NextRace]_vars

(***************************************************************************)
(* SpecPopulate: callers of DataPopulator.save_training_data on the        *)
(* training_data collection.  Every await of the coroutine is a point      *)
(* where another caller may run, so find_one, update_one and insert_one    *)
(* are steps of their own.                                                 *)
(***************************************************************************)
MaxTraining == 3        \* documents in training_data

PromptQ == <<"q">>
PromptR == <<"r">>
Prompts == {PromptQ, PromptR}
Responses == {<<"x">>, <<"y">>}
Categories == {None, Some("sports"), Some("nfl")}

\* the documents of training_data (the calls are made on an object of
\* training_data_embeddings)
training_data == db["training_data"]

\* str(ObjectId)
str_id(oid) == <<"str", oid[1], oid[2]>>

\* category or "sports"
category_or_sports(category) == IF IsNone(category) \/ category = Some("") THEN "sports"
                                ELSE category[1]

\* DataPopulator._convert_to_training_data, lines 32-58: the fields the lookup of
\* save_training_data reads, the response and the is_active flag
convert_to_training_data(prompt, response, category, source_type) ==
    [prompt |-> prompt, response |-> response,
     category |-> category_or_sports(category), source_type |-> source_type,
     is_active |-> TRUE]

\* collection.find_one(filter): the first document with the fields of the filter
find_one(coll, filter) ==
    LET hits == {n \in 1..Len(coll) : \A f \in DOMAIN filter : coll[n][f] = filter[f]}
    IN  IF hits = {} THEN None
        ELSE Some(coll[CHOOSE n \in hits : \A m \in hits : n <= m])

\* collection.update_one({"_id": oid}, {"$set": entry})
update_one(coll, oid, entry) ==
    LET hits == {n \in 1..Len(coll) : coll[n].id_ = oid}
        first == CHOOSE n \in hits : \A m \in hits : n <= m
    IN  IF hits = {} THEN coll
        ELSE [coll EXCEPT ![first] =
                 [f \in DOMAIN coll[first] \cup DOMAIN entry |->
                     IF f \in DOMAIN entry THEN entry[f] ELSE coll[first][f]]]

\* save_training_data, lines 74-85: the entry is built and the collection fetched
save_training_data(p, prompt, response, category, source_type, update_existing) ==
    /\ saves[p].pc \in {"idle", "returned"}
    /\ Len(training_data) < MaxTraining
    /\ saves' = [saves EXCEPT ![p] =
                    [pc |-> IF update_existing THEN "find_one" ELSE "insert_one",
                     training_entry |-> convert_to_training_data(prompt, response,
                                                                 category, source_type),
                     query |-> [prompt |-> prompt,
                                category |-> category_or_sports(category),
                                source_type |-> source_type],
                     existing |-> None,
                     returned |-> None]]
    /\ UNCHANGED <<store, embedding_function, written, client, collections, self, db,
                   added, request, embed>>
    /\ UNCHANGED add_vars
    /\ UNCHANGED query_vars

\* lines 87-93: await collection.find_one(...)
save_find_one(p) ==
    /\ saves[p].pc = "find_one"
    /\ LET existing == find_one(training_data, saves[p].query)
       IN  saves' = [saves EXCEPT ![p].existing = existing,
                                  ![p].pc = IF IsNone(existing) THEN "insert_one"
                                            ELSE "update_one"]
    /\ UNCHANGED <<store, embedding_function, written, client, collections, self, db,
                   added, request, embed>>
    /\ UNCHANGED add_vars
    /\ UNCHANGED query_vars

\* lines 95-100: await collection.update_one(...); return str(existing["_id"])
save_update_one(p) ==
    /\ saves[p].pc = "update_one"
    /\ db' = [db EXCEPT !["training_data"] =
                 update_one(training_data, saves[p].existing[1].id_,
                            saves[p].training_entry)]
    /\ saves' = [saves EXCEPT ![p].pc = "returned",
                              ![p].returned = Some(str_id(saves[p].existing[1].id_))]
    /\ UNCHANGED <<store, embedding_function, written, client, collections, self,
                   added, request, embed>>
    /\ UNCHANGED add_vars
    /\ UNCHANGED query_vars

\* lines 103-104: await collection.insert_one(training_entry); MongoDB gives the
\* entry a new ObjectId
save_insert_one(p) ==
    /\ saves[p].pc = "insert_one"
    /\ LET oid == <<"oid", Len(training_data) + 1>>
       IN  /\ db' = [db EXCEPT !["training_data"] =
                        Append(training_data,
                               [f \in DOMAIN saves[p].training_entry \cup {"id_"} |->
                                   IF f = "id_" THEN oid ELSE saves[p].training_entry[f]])]
           /\ saves' = [saves EXCEPT ![p].pc = "returned",
                                     ![p].returned = Some(str_id(oid))]
    /\ UNCHANGED <<store, embedding_function, written, client, collections, self,
                   added, request, embed>>
    /\ UNCHANGED add_vars
    /\ UNCHANGED query_vars

\* update_existing is left at its default
SaveTrainingData ==
    \E p \in Callers, prompt \in Prompts, response \in Responses, category \in Categories :
        save_training_data(p, prompt, response, category, "sports_scraper", TRUE)

SaveFindOne == \E p \in Callers : save_find_one(p)

SaveUpdateOne == \E p \in Callers : save_update_one(p)

SaveInsertOne == \E p \in Callers : save_insert_one(p)

NextPopulate ==
    \/ SaveTrainingData
    \/ SaveFindOne
    \/ SaveUpdateOne
    \/ SaveInsertOne

SpecPopulate == Init /\ [][NextPopulate]_vars

(***************************************************************************)
(* SpecDriver: the endpoints /embed_all_docs and /query of the API driver  *)
(* on the collections training_data and training_data_embeddings, while    *)
(* the scraper saves entries to training_data.                             *)
(***************************************************************************)
TopK == 3               \* n_results=3 and the slice [:3] of query_llm

Questions == Texts

\* f"Prompt: {prompt}\nResponse: {response}"
combined_text(prompt, response) ==
    <<"P", "r", "o", "m", "p", "t", ":", " ">> \o prompt
        \o <<"\n", "R", "e", "s", "p", "o", "n", "s", "e", ":", " ">> \o response

\* "\n\n"
Separator == <<"\n", "\n">>

RECURSIVE join(_, _)
\* sep.join(texts)
join(sep, texts) ==
    IF Len(texts) = 0 THEN <<>>
    ELSE IF Len(texts) = 1 THEN texts[1]
    ELSE texts[1] \o sep \o join(sep, Tail(texts))

\* lines 217-262 of embed_all_docs: the documents of training_data are read; with
\* none the endpoint returns, otherwise the texts, metadatas and ids of all of them
\* are prepared and a collection object of training_data_embeddings is made
embed_all_docs ==
    /\ embed.pc \in {"idle", "returned", "failed"}
    /\ request.pc # "query"
    /\ apc # "insert_many"
    /\ embed' = IF Len(training_data) = 0
                THEN [pc |-> "returned", docs_list |-> <<>>,
                      response |-> Some([status |-> 200, count |-> 0])]
                ELSE [pc |-> "add", docs_list |-> training_data, response |-> None]
    /\ embedding_function' = "bound"
    /\ apc' = "idle"
    /\ docs_to_insert' = <<>>
    /\ inserted' = 0
    /\ add_error' = ""
    /\ aargs' = <<>>
    /\ encoded' = <<>>
    /\ UNCHANGED <<store, written, client, collections, self, db, added, saves, request>>
    /\ UNCHANGED query_vars

\* lines 233-271: embedding_collection.add(documents=..., metadatas=..., ids=...)
EmbedAllDocsAdd ==
    /\ embed.pc = "add"
    /\ apc = "idle"
    /\ LET docs_list == embed.docs_list
           documents_to_embed == [i \in 1..Len(docs_list) |->
                                     combined_text(docs_list[i].prompt, docs_list[i].response)]
           metadatas == [i \in 1..Len(docs_list) |->
                            {<<"category", docs_list[i].category>>,
                             <<"source_type", docs_list[i].source_type>>,
                             <<"original_id", str_id(docs_list[i].id_)>>}]
           ids == [i \in 1..Len(docs_list) |-> str_id(docs_list[i].id_)]
       IN  add(Some(documents_to_embed), None, Some(metadatas), Some(ids))

\* lines 273-283: the success response, or HTTP 500 for any exception
embed_all_docs_return ==
    /\ embed.pc = "add"
    /\ apc \in {"returned", "raised"}
    /\ embed' = IF apc = "returned"
                THEN [embed EXCEPT !.pc = "returned",
                                   !.response = Some([status |-> 200,
                                                      count |-> Len(embed.docs_list)])]
                ELSE [embed EXCEPT !.pc = "failed",
                                   !.response = Some([status |-> 500, detail |-> add_error])]
    /\ UNCHANGED <<store, embedding_function, written, client, collections, self, db,
                   added, saves, request>>
    /\ UNCHANGED add_vars
    /\ UNCHANGED query_vars

\* lines 126-153 of query_llm: the question is taken from the request and a
\* collection object of training_data_embeddings is made
query_llm(question) ==
    /\ request.pc \in {"idle", "answered", "failed"}
    /\ embed.pc # "add"
    /\ request' = [pc |-> "query", question |-> question, context |-> <<>>, llm |-> <<>>,
                   response |-> None]
    /\ embedding_function' = "bound"
    /\ qpc' = "idle"
    /\ qargs' = <<>>
    /\ query_embeddings' = <<>>
    /\ qi' = 1
    /\ results' = EmptyResults
    /\ query_error' = ""
    /\ scan' = None
    /\ prev_ids' = None
    /\ UNCHANGED <<store, written, client, collections, self, db, added, saves, embed>>
    /\ UNCHANGED add_vars

\* lines 154-157: embedding_collection.query(query_texts=[question], n_results=3)
QueryLlmQuery ==
    /\ request.pc = "query"
    /\ qpc = "idle"
    /\ query(Some(<<request.question>>), None, TopK, {}, {})

\* a flow that hands the context to the language model whatever was retrieved
query_llm_context_always ==
    /\ request.pc = "query"
    /\ qpc = "returned"
    /\ request' = [request EXCEPT
                      !.pc = "generate_text",
                      !.context = IF Len(results.documents) > 0
                                  THEN join(Separator, PySlice(results.documents[1], TopK))
                                  ELSE <<>>]
    /\ UNCHANGED <<store, embedding_function, written, client, collections, self, db,
                   added, saves, embed>>
    /\ UNCHANGED add_vars
    /\ UNCHANGED query_vars

\* a flow that joins the retrieved texts with nothing between them
query_llm_context_without_separator ==
    /\ request.pc = "query"
    /\ qpc = "returned"
    /\ request' = IF Len(results.documents) > 0 /\ Len(results.documents[1]) > 0
                  THEN [request EXCEPT
                           !.pc = "generate_text",
                           !.context = join(<<>>, PySlice(results.documents[1], TopK))]
                  ELSE [request EXCEPT
                           !.pc = "answered",
                           !.response = Some([status |-> 200, context_found |-> FALSE,
                                              answer |-> "I couldn't find relevant information",
                                              sources_used |-> 0])]
    /\ UNCHANGED <<store, embedding_function, written, client, collections, self, db,
                   added, saves, embed>>
    /\ UNCHANGED add_vars
    /\ UNCHANGED query_vars

\* lines 166-181: with documents retrieved, the first three are joined to the
\* context; with none the endpoint returns its no-context answer
query_llm_context ==
    /\ request.pc = "query"
    /\ qpc = "returned"
    /\ request' = IF Len(results.documents) > 0 /\ Len(results.documents[1]) > 0
                  THEN [request EXCEPT
                           !.pc = "generate_text",
                           !.context = join(Separator, PySlice(results.documents[1], TopK))]
                  ELSE [request EXCEPT
                           !.pc = "answered",
                           !.response = Some([status |-> 200, context_found |-> FALSE,
                                              answer |-> "I couldn't find relevant information",
                                              sources_used |-> 0])]
    /\ UNCHANGED <<store, embedding_function, written, client, collections, self, db,
                   added, saves, embed>>
    /\ UNCHANGED add_vars
    /\ UNCHANGED query_vars

\* lines 186-215: await claude_llm.generate_text(context, max_length=500), then the
\* answer; an exception of the call becomes HTTP 500
query_llm_generate_text(succeeds) ==
    /\ request.pc = "generate_text"
    /\ request' = [request EXCEPT
                      !.llm = Append(request.llm, request.context),
                      !.pc = IF succeeds THEN "answered" ELSE "failed",
                      !.response =
                          IF succeeds
                          THEN Some([status |-> 200, context_found |-> TRUE,
                                     answer |-> "answer",
                                     sources_used |-> Len(results.documents[1])])
                          ELSE Some([status |-> 500, detail |-> "Failed to query LLM"])]
    /\ UNCHANGED <<store, embedding_function, written, client, collections, self, db,
                   added, saves, embed>>
    /\ UNCHANGED add_vars
    /\ UNCHANGED query_vars

\* the scraper saves entries, one call at a time
DriverSave ==
    \E prompt \in Prompts, category \in {None, Some("nfl")} :
        save_training_data(1, prompt, <<"x">>, category, "sports_scraper", TRUE)

QueryLlm == \E question \in Questions : query_llm(question)

QueryLlmGenerateText == \E succeeds \in BOOLEAN : query_llm_generate_text(succeeds)

NextDriver ==
    \/ DriverSave
    \/ SaveFindOne
    \/ SaveUpdateOne
    \/ SaveInsertOne
    \/ embed_all_docs
    \/ EmbedAllDocsAdd
    \/ insert_many
    \/ embed_all_docs_return
    \/ QueryLlm
    \/ QueryLlmQuery
    \/ query_loop
    \/ query_return
    \/ query_llm_context
    \/ QueryLlmGenerateText

SpecDriver == Init /\ [][NextDriver]_vars

(***************************************************************************)
(* Properties.                                                             *)
(***************************************************************************)
\* the queries of the running (or returned) call whose result is in results
Completed == IF qpc \in {"loop", "returned"} THEN 1..(qi - 1) ELSE {}

\* the vector of input query i, from the arguments of the call
QueryVector(i) == IF ~IsNone(qargs.query_texts) THEN encode(qargs.query_texts[1][i])
                  ELSE qargs.query_embeddings[1][i]

NumberOfQueries == IF ~IsNone(qargs.query_texts) THEN Len(qargs.query_texts[1])
                   ELSE Len(qargs.query_embeddings[1])

HasEmbedding(doc) == "embedding" \in DOMAIN doc

\* every key/value pair of where equals the corresponding metadata field
MetadataSatisfies(doc, where) == \A kv \in where : kv \in doc.metadata

\* the text contains the $contains string, case-insensitively
TextSatisfies(doc, where_document) ==
    HasKey(where_document, "$contains") =>
        /\ "text" \in DOMAIN doc
        /\ \E i \in 0..(Len(doc.text) - Len(Get(where_document, "$contains"))) :
              \A c \in 1..Len(Get(where_document, "$contains")) :
                 LowerChar(doc.text[i + c]) = LowerChar(Get(where_document, "$contains")[c])

\* positions in the store of the eligible records of the running call
Eligible == {n \in 1..Len(store) : /\ HasEmbedding(store[n])
                                   /\ MetadataSatisfies(store[n], qargs.where)
                                   /\ TextSatisfies(store[n], qargs.where_document)}

Returned(i) == {results.ids[i][j] : j \in 1..Len(results.ids[i])}

\* C1: every query returns min(n_results, number of eligible candidates) distinct
\* eligible records, and no eligible record left out is strictly nearer to the
\* query than a returned one.
C1_ExactNearestNeighbours ==
    \A i \in Completed :
        /\ Len(results.ids[i]) = Min2(qargs.n_results, Cardinality(Eligible))
        /\ Cardinality(Returned(i)) = Len(results.ids[i])
        /\ \A id \in Returned(i) : \E n \in Eligible : store[n].id_ = id
        /\ \A n, m \in Eligible :
              (store[n].id_ \notin Returned(i) /\ store[m].id_ \in Returned(i))
              => ~DistLT(distance(QueryVector(i), store[n].embedding),
                         distance(QueryVector(i), store[m].embedding))

\* C2: in every result set the distances are non-decreasing in rank order.
C2_RankOrdering ==
    \A i \in Completed :
        \A j \in 1..(Len(results.distances[i]) - 1) :
            DistLE(results.distances[i][j], results.distances[i][j + 1])

\* C3: a query returns at most n_results records, fewer only when fewer records
\* are eligible, and never more records than are eligible.
C3_KTruncation ==
    \A i \in Completed :
        /\ Len(results.ids[i]) <= qargs.n_results
        /\ Len(results.ids[i]) < qargs.n_results => Cardinality(Eligible) < qargs.n_results
        /\ Len(results.ids[i]) <= Cardinality(Eligible)

\* C4: every returned metadata equals where on every where key, and no stored
\* record that lacks a key or differs on it is among the returned ids.
C4_FilterCorrectness ==
    \A i \in Completed :
        /\ \A j \in 1..Len(results.metadatas[i]) :
              \A kv \in qargs.where : kv \in results.metadatas[i][j]
        /\ \A n \in 1..Len(store) :
              ~MetadataSatisfies(store[n], qargs.where) => store[n].id_ \notin Returned(i)

C4_Witness ==
    /\ qpc = "returned"
    /\ qi > 1
    /\ qargs.where = {<<"category", X>>, <<"source", A>>}
    /\ Len(results.ids[1]) > 0
    /\ \E n \in 1..Len(store) : /\ HasEmbedding(store[n])
                                /\ store[n].metadata = {<<"category", X>>}

\* C5: with where_document = {"$contains": s} the scanned candidates are exactly
\* the records written by add whose text contains s case-insensitively (and whose
\* metadata satisfies where).
C5_ContainsFilter ==
    (/\ qpc \in {"loop", "returned"}
     /\ ~IsNone(scan)
     /\ HasKey(qargs.where_document, "$contains"))
    => StoredIds(scan[1]) = {store[n].id_ : n \in Eligible}

\* C6: the four output sequences have one element per input query, and element i
\* holds the records ranked against input query i.
C6_BatchAlignment ==
    qpc = "returned" =>
        /\ Len(results.ids) = NumberOfQueries
        /\ Len(results.distances) = NumberOfQueries
        /\ Len(results.documents) = NumberOfQueries
        /\ Len(results.metadatas) = NumberOfQueries
        /\ \A i \in 1..NumberOfQueries :
              /\ Len(results.distances[i]) = Len(results.ids[i])
              /\ \A j \in 1..Len(results.ids[i]) :
                    \E n \in 1..Len(store) :
                       /\ HasEmbedding(store[n])
                       /\ store[n].id_ = results.ids[i][j]
                       /\ results.distances[i][j]
                             = distance(QueryVector(i), store[n].embedding)

C6_Witness ==
    /\ qpc = "returned"
    /\ NumberOfQueries = 2
    /\ QueryVector(1) # QueryVector(2)
    /\ Len(results.ids[1]) > 1
    /\ results.ids[1] # results.ids[2]

\* C7: within one query's result the four sequences have the same length, and
\* rank j of each of them comes from the same stored record.
C7_ParallelSequences ==
    \A i \in Completed :
        /\ Len(results.distances[i]) = Len(results.ids[i])
        /\ Len(results.documents[i]) = Len(results.ids[i])
        /\ Len(results.metadatas[i]) = Len(results.ids[i])
        /\ \A j \in 1..Len(results.ids[i]) :
              \E n \in 1..Len(store) :
                 /\ HasEmbedding(store[n])
                 /\ store[n].id_ = results.ids[i][j]
                 /\ store[n].text = results.documents[i][j]
                 /\ store[n].metadata = results.metadatas[i][j]
                 /\ distance(query_embeddings[i], store[n].embedding)
                       = results.distances[i][j]

C7_Witness ==
    /\ qpc = "returned"
    /\ qi > 1
    /\ Len(results.ids[1]) > 1
    /\ results.documents[1][1] # results.documents[1][2]
    /\ results.metadatas[1][1] # results.metadatas[1][2]

\* C8: a repeated identical query on the unmodified collection returns the same
\* ranked ids, and records at equal distance are ranked in insertion order.
Position(id) == CHOOSE n \in 1..Len(store) : store[n].id_ = id

C8_Determinism ==
    qpc = "returned" =>
        /\ ~IsNone(prev_ids) => results.ids = prev_ids[1]
        /\ \A i \in Completed :
              \A j, k \in 1..Len(results.ids[i]) :
                 (/\ j < k
                  /\ DistLE(results.distances[i][j], results.distances[i][k])
                  /\ DistLE(results.distances[i][k], results.distances[i][j]))
                 => Position(results.ids[i][j]) < Position(results.ids[i][k])

\* C9: after add(documents=[t]) has returned, query(query_texts=[t], n_results=1)
\* returns the added record, at distance 0 (stated for the collections in which
\* no other record lies in the direction of the embedding of t, so that no other
\* record ties with it).
C9_RoundTrip ==
    (/\ apc = "returned"
     /\ Len(docs_to_insert) = 1
     /\ docs_to_insert[1].text \in Texts
     /\ qpc = "returned"
     /\ qargs.query_texts = Some(<<docs_to_insert[1].text>>)
     /\ qargs.n_results = 1
     /\ \A n \in 1..Len(store) :
           (HasEmbedding(store[n]) /\ store[n].id_ # docs_to_insert[1].id_)
           => ~DistIsZero(distance(encode(docs_to_insert[1].text), store[n].embedding)))
    => /\ results.ids = << <<docs_to_insert[1].id_>> >>
       /\ DistIsZero(results.distances[1][1])

\* C10: the records written by the add calls that have returned are all among
\* the documents scanned by an unfiltered query.
C10_ImmediatelyVisible ==
    (/\ qpc \in {"loop", "returned"}
     /\ ~IsNone(scan)
     /\ qargs.where = {}
     /\ qargs.where_document = {})
    => \A id \in written :
          \E n \in 1..Len(scan[1]) : /\ scan[1][n].id_ = id
                                     /\ \E m \in 1..Len(store) : store[m] = scan[1][n]

C10_Witness ==
    /\ qpc = "loop"
    /\ ~IsNone(scan)
    /\ qargs.where = {}
    /\ qargs.where_document = {}
    /\ apc = "returned"
    /\ Len(docs_to_insert) = 2
    /\ StoredIds(docs_to_insert) \subseteq written
    /\ Len(store) = FilterStore

\* C11: a query call whose filter leaves no eligible record does not raise; each
\* of its queries gets four empty sequences, and the call returns one result per
\* query of the batch.
C11_EmptyCandidates ==
    (qpc # "idle" /\ Eligible = {})
    => /\ qpc # "raised"
       /\ query_error = ""
       /\ Len(results.ids) = qi - 1
       /\ \A i \in 1..(qi - 1) :
             /\ i <= Len(results.ids) => results.ids[i] = <<>>
             /\ i <= Len(results.distances) => results.distances[i] = <<>>
             /\ i <= Len(results.documents) => results.documents[i] = <<>>
             /\ i <= Len(results.metadatas) => results.metadatas[i] = <<>>
       /\ qpc = "returned" =>
             /\ Len(results.ids) = NumberOfQueries
             /\ Len(results.distances) = NumberOfQueries
             /\ Len(results.documents) = NumberOfQueries
             /\ Len(results.metadatas) = NumberOfQueries

C11_Witness ==
    /\ qpc = "returned"
    /\ NumberOfQueries = 2
    /\ Eligible = {}
    /\ ~IsNone(scan)
    /\ Len(scan[1]) = 0
    /\ \E n \in 1..Len(store) : HasEmbedding(store[n])
    /\ results.ids = << <<>>, <<>> >>

\* C12: a call of add with neither documents nor embeddings raises the ValueError
\* of line 21: it hands no batch to insert_many and writes no document.
C12_NeitherInput ==
    (apc # "idle" /\ IsNone(aargs.documents) /\ IsNone(aargs.embeddings))
    => /\ apc = "raised"
       /\ add_error = "ValueError: Either documents or embeddings must be provided"
       /\ docs_to_insert = <<>>
       /\ inserted = 0

C12_Witness ==
    /\ apc = "raised"
    /\ add_error = "ValueError: Either documents or embeddings must be provided"
    /\ IsNone(aargs.documents)
    /\ IsNone(aargs.embeddings)
    /\ ~IsNone(aargs.metadatas)
    /\ ~IsNone(aargs.ids)
    /\ Len(store) > 0

\* C13: on a collection without embedding function, a call of add with documents
\* and without embeddings raises the ValueError of line 26: it hands no batch to
\* insert_many and writes no document.
C13_NoEmbeddingFunction ==
    (/\ apc # "idle"
     /\ embedding_function = "None"
     /\ ~IsNone(aargs.documents)
     /\ IsNone(aargs.embeddings))
    => /\ apc = "raised"
       /\ add_error = "ValueError: No embedding function provided"
       /\ docs_to_insert = <<>>
       /\ inserted = 0

C13_Witness ==
    /\ apc = "raised"
    /\ embedding_function = "None"
    /\ add_error = "ValueError: No embedding function provided"
    /\ ~IsNone(aargs.documents)
    /\ Len(aargs.documents[1]) = AddLen
    /\ IsNone(aargs.embeddings)
    /\ Len(store) > 0

\* the lengths of the sequences supplied to the last call of add
SuppliedLengths ==
    {Len(aargs[f][1]) : f \in {f \in {"documents", "embeddings", "metadatas", "ids"} :
                                  ~IsNone(aargs[f])}}

\* C14: a call of add whose supplied sequences differ in length raises (the
\* claim: with the error of an invalid argument) and writes no document; it is
\* never handed to insert_many with the surplus elements dropped.
C14_MismatchedLengths ==
    (apc # "idle" /\ Cardinality(SuppliedLengths) > 1)
    => /\ apc = "raised"
       /\ inserted = 0

\* C15: a call of query with neither query_texts nor query_embeddings raises the
\* ValueError of line 63, and has scanned nothing and built no result by then.
C15_NeitherQueryInput ==
    (qpc # "idle" /\ IsNone(qargs.query_texts) /\ IsNone(qargs.query_embeddings))
    => /\ qpc = "raised"
       /\ query_error = "ValueError: Either query_texts or query_embeddings must be provided"
       /\ IsNone(scan)
       /\ results = EmptyResults

C15_Witness ==
    /\ qpc = "raised"
    /\ query_error = "ValueError: Either query_texts or query_embeddings must be provided"
    /\ IsNone(qargs.query_texts)
    /\ IsNone(qargs.query_embeddings)
    /\ Len(store) > 0
    /\ embedding_function = "bound"

\* C16: on a collection without embedding function, a call of query with
\* query_texts raises the ValueError of line 60 without scanning, and a call with
\* query_embeddings only does not raise and returns one ranked result per vector.
C16_QueryWithoutFunction ==
    (qpc # "idle" /\ embedding_function = "None")
    => IF ~IsNone(qargs.query_texts)
       THEN /\ qpc = "raised"
            /\ query_error = "ValueError: No embedding function provided"
            /\ IsNone(scan)
       ELSE ~IsNone(qargs.query_embeddings)
            => /\ qpc \in {"loop", "returned"}
               /\ query_error = ""
               /\ query_embeddings = qargs.query_embeddings[1]
               /\ Len(results.ids) = qi - 1
               /\ qpc = "returned" => Len(results.ids) = Len(qargs.query_embeddings[1])
               /\ \A i \in 1..Len(results.ids) :
                     Len(results.ids[i]) = Min2(qargs.n_results, Cardinality(Eligible))

C16_Witness ==
    /\ qpc = "returned"
    /\ embedding_function = "None"
    /\ IsNone(qargs.query_texts)
    /\ Len(qargs.query_embeddings[1]) = AddLen
    /\ Len(results.ids[1]) = AddLen

\* the number of input elements of the last call of add: the length of documents,
\* or of embeddings when documents are omitted
InputLength == IF ~IsNone(aargs.documents) THEN Len(aargs.documents[1])
               ELSE Len(aargs.embeddings[1])

\* the i-th record written by the last call of add that returned
Appended(i) == store[Len(store) - inserted + i]

\* input element i of the last call of add is what record r holds
HoldsInput(r, i) ==
    /\ ~IsNone(aargs.ids) => (i <= Len(aargs.ids[1]) /\ r.id_ = aargs.ids[1][i])
    /\ ~IsNone(aargs.documents)
          => (i <= Len(aargs.documents[1]) /\ r.text = aargs.documents[1][i])
    /\ IF ~IsNone(aargs.embeddings)
       THEN i <= Len(aargs.embeddings[1]) /\ r.embedding = aargs.embeddings[1][i][2]
       ELSE i <= Len(aargs.documents[1]) /\ r.embedding = encode(aargs.documents[1][i])
    /\ ~IsNone(aargs.metadatas)
          => (i <= Len(aargs.metadatas[1]) /\ r.metadata = aargs.metadatas[1][i])

\* C17: when a call of add with n input elements has returned, it has handed one
\* batch of n documents to insert_many and the last n records of the collection
\* hold ids[i], documents[i], embeddings[i] and metadatas[i], in input order.
C17_OneRecordPerElement ==
    apc = "returned"
    => /\ Len(docs_to_insert) = InputLength
       /\ inserted = InputLength
       /\ \A i \in 1..inserted : /\ Appended(i) = docs_to_insert[i]
                                  /\ HoldsInput(Appended(i), i)

\* C18: when a call of add omits ids, the ids of the documents it hands to
\* insert_many are generated ones, one per document, pairwise distinct and
\* different from the id of every record the collection held at the call (no
\* record has the id of a document not yet written, one record has the id of a
\* written one); the write never fails on a duplicate id.
C18_FreshIds ==
    (apc # "idle" /\ IsNone(aargs.ids))
    => /\ add_error # "BulkWriteError"
       /\ \A i \in 1..Len(docs_to_insert) :
             /\ docs_to_insert[i].id_[1] = "uuid"
             /\ \A j \in 1..Len(docs_to_insert) :
                   docs_to_insert[i].id_ = docs_to_insert[j].id_ => i = j
             /\ Cardinality({n \in 1..Len(store) : store[n].id_ = docs_to_insert[i].id_})
                   = IF i <= inserted THEN 1 ELSE 0

C18_Witness ==
    /\ apc = "returned"
    /\ IsNone(aargs.ids)
    /\ inserted = AddLen
    /\ Len(store) > inserted
    /\ store[1].id_[1] = "uuid"

\* C19: a call add(embeddings=E) without documents and without ids (metadatas
\* omitted or of the length of E) does not raise, and when it has returned it has
\* written one record per vector of E, with the empty string as text and the
\* vector as embedding.
C19_RawVectorInsert ==
    (/\ apc # "idle"
     /\ IsNone(aargs.documents)
     /\ ~IsNone(aargs.embeddings)
     /\ IsNone(aargs.ids)
     /\ Cardinality(SuppliedLengths) = 1)
    => /\ apc \in {"insert_many", "returned"}
       /\ add_error = ""
       /\ Len(docs_to_insert) = Len(aargs.embeddings[1])
       /\ apc = "returned" =>
             /\ inserted = Len(aargs.embeddings[1])
             /\ \A i \in 1..inserted :
                   /\ Appended(i).text = <<>>
                   /\ Appended(i).embedding = aargs.embeddings[1][i][2]

\* C20: no two records of the collection have the same id, whatever ids the
\* calls of add supplied or generated.
C20_UniqueIds ==
    \A n, m \in 1..Len(store) : store[n].id_ = store[m].id_ => n = m

C20_Witness ==
    /\ apc = "raised"
    /\ add_error = "BulkWriteError"
    /\ ~IsNone(aargs.ids)
    /\ Len(aargs.ids[1]) = 2
    /\ aargs.ids[1][1] = aargs.ids[1][2]
    /\ inserted = 1
    /\ Len(store) = 2
    /\ store[1].id_[1] = "uuid"

\* C21: no step of a query call, whether the call returns or raises, changes the
\* documents of the collection or the embedding function bound to it.
C21_QueryReadOnly ==
    [][query_vars' # query_vars
       => (store' = store /\ embedding_function' = embedding_function)]_vars

C21_Witness ==
    /\ qpc = "returned"
    /\ embedding_function = "bound"
    /\ ~IsNone(qargs.query_texts)
    /\ ~IsNone(scan)
    /\ Len(scan[1]) = Len(store)
    /\ Len(store) > 1
    /\ Len(results.ids[1]) > 1

\* C22: every object made by get_or_create_collection has the embedding function
\* of the client, and a query through an object scans and returns every document
\* written through the other objects of the same name.
C22_EquivalentViews ==
    /\ \A i \in 1..Len(collections) :
          collections[i].embedding_function = client.embedding_function
    /\ (self # 0 /\ qpc \in {"loop", "returned"} /\ ~IsNone(scan))
       => \A e \in added :
             e[2] = CurrentName
             => /\ \E n \in 1..Len(scan[1]) : scan[1][n] = e[3]
                /\ \A i \in Completed : e[3].id_ \in Returned(i)

C22_Witness ==
    /\ qpc = "returned"
    /\ self # 0
    /\ \E e \in added : /\ e[1] \notin {0, self}
                         /\ e[2] = CurrentName
                         /\ e[3].id_ \in Returned(1)
    /\ \E name \in CollectionNames : name # CurrentName /\ Len(db[name]) > 0

\* C23: a step of an add call on one collection changes no document of a
\* collection of another name, and so no result of a query on it.
C23_IndependentPartitions ==
    [][add_vars' # add_vars
       => \A name \in CollectionNames \ {CurrentName} :
             /\ db'[name] = db[name]
             /\ \A t \in Texts :
                   append_results(EmptyResults, find(db'[name], {}), encode(t), ClientStore)
                   = append_results(EmptyResults, find(db[name], {}), encode(t), ClientStore)]_vars

C23_Witness ==
    /\ apc = "returned"
    /\ self # 0
    /\ Len(store) = ClientStore
    /\ \E name \in CollectionNames :
          /\ name # CurrentName
          /\ Len(db[name]) > 0
          /\ db[name] # store

\* two entries of training_data are entries of one (prompt, category, source_type)
SameKey(a, b) ==
    /\ a.prompt = b.prompt
    /\ a.category = b.category
    /\ a.source_type = b.source_type

\* C26: with update_existing at its default, after any interleaving of
\* save_training_data calls training_data holds at most one entry per
\* (prompt, category, source_type), and a call that found an existing entry
\* returns its id and leaves the number of entries as it was.
C26_NoDuplicate ==
    /\ \A m, n \in 1..Len(training_data) :
          SameKey(training_data[m], training_data[n]) => m = n
    /\ \A p \in Callers :
          (saves[p].pc = "returned" /\ ~IsNone(saves[p].existing)) =>
             saves[p].returned = Some(str_id(saves[p].existing[1].id_))

\* the last add call left the embedding to the bound embedding function
EmbeddingsOmitted ==
    /\ apc # "idle"
    /\ IsNone(aargs.embeddings)
    /\ ~IsNone(aargs.documents)
    /\ embedding_function # "None"

\* C27: when add is called with embeddings omitted, the embedding function is
\* invoked exactly once per document, in input order, and every invocation has
\* happened before the first record of the batch is written.
C27_EncodeOncePerDocument ==
    (EmbeddingsOmitted /\ apc \in {"insert_many", "returned"}) =>
        /\ Len(encoded) = Len(aargs.documents[1])
        /\ \A i \in 1..Len(encoded) :
              /\ encoded[i] = aargs.documents[1][i]
              /\ docs_to_insert[i].embedding = encode(encoded[i])

C27_Witness ==
    /\ EmbeddingsOmitted
    /\ apc = "insert_many"
    /\ inserted = 0
    /\ Len(encoded) = 2
    /\ encoded[1] # encoded[2]

\* the embedding function fails on a document of the last add call
EncodeFailed ==
    /\ EmbeddingsOmitted
    /\ \E i \in 1..Len(aargs.documents[1]) : encode_fails(aargs.documents[1][i])

\* C28: if the embedding function fails on a document of an add call, the call
\* raises that error and writes nothing: the store is as it was before the call
\* and no batch is left to be written.
C28_EncodeFailureAborts ==
    [][EncodeFailed' =>
          /\ apc' = "raised"
          /\ add_error' = EncodeError
          /\ docs_to_insert' = <<>>
          /\ inserted' = 0
          /\ store' = store]_vars

C28_Witness ==
    /\ EncodeFailed
    /\ apc = "raised"
    /\ Len(store) > 0
    /\ Len(aargs.documents[1]) = 2
    /\ ~encode_fails(aargs.documents[1][1])

\* the vector query of the request being served returned no document
NothingRetrieved ==
    /\ qpc = "returned"
    /\ (Len(results.documents) = 0 \/ Len(results.documents[1]) = 0)

\* C24: when the vector query of a /query request returns an empty result set,
\* the endpoint answers with context_found false and the language model is not
\* called in that request.
C24_NoContextNoModel ==
    (request.pc \in {"generate_text", "answered", "failed"} /\ NothingRetrieved) =>
        /\ request.pc = "answered"
        /\ request.response[1].context_found = FALSE
        /\ request.llm = <<>>

C24_Witness ==
    /\ request.pc = "answered"
    /\ NothingRetrieved
    /\ Len(training_data) > 0

\* C25: the context handed to the language model is the first min(3, n)
\* document texts the query returned for the question, in the order returned,
\* with the separator between them.
C25_ContextOfTopThree ==
    \A c \in 1..Len(request.llm) :
        LET texts == results.documents[1]
            n == Len(texts)
        IN  request.llm[c] =
                IF n = 1 THEN texts[1]
                ELSE IF n = 2 THEN texts[1] \o Separator \o texts[2]
                ELSE texts[1] \o Separator \o texts[2] \o Separator \o texts[3]

C25_Witness ==
    /\ Len(request.llm) = 1
    /\ Len(results.documents[1]) = 3
    /\ results.documents[1][1] # results.documents[1][3]

\* the run of embed_all_docs that ended found records of earlier runs in
\* training_data_embeddings and more documents in training_data than those records
RerunWithNewDocuments ==
    /\ embed.pc \in {"returned", "failed"}
    /\ Len(store) - inserted > 0
    /\ Len(embed.docs_list) > Len(store) - inserted

\* C30: a run of embed_all_docs made after documents were added to training_data
\* succeeds, and every document of training_data, old and new, has exactly one
\* record of its id in training_data_embeddings.
C30_RerunEmbedsAll ==
    RerunWithNewDocuments =>
        /\ embed.pc = "returned"
        /\ \A i \in 1..Len(embed.docs_list) :
              Cardinality({n \in 1..Len(store) :
                             store[n].id_ = str_id(embed.docs_list[i].id_)}) = 1

\* C29: a query running while an add is writing does not fail, and the result of
\* each of its queries holds only records that are in the store at the moment of
\* the scan of that query; the results of the queries before it stay as they were.
C29_ResultsFromTheScannedStore ==
    [][qpc = "loop" =>
          /\ qpc' # "raised"
          /\ qi' = qi + 1 =>
                /\ \A j \in 1..Len(results'.ids[qi]) :
                      \E n \in 1..Len(store) :
                          /\ store[n].id_ = results'.ids[qi][j]
                          /\ store[n].text = results'.documents[qi][j]
                          /\ store[n].metadata = results'.metadatas[qi][j]
                /\ \A i \in 1..(qi - 1) : results'.ids[i] = results.ids[i]]_vars

\* two queries of one call saw none and one of the two records of an add in flight
C29_Witness ==
    /\ qpc = "returned"
    /\ apc = "insert_many"
    /\ Len(docs_to_insert) = 2
    /\ store = <<docs_to_insert[1]>>
    /\ Len(results.ids) = 2
    /\ Len(results.ids[1]) = 0
    /\ Len(results.ids[2]) = 1

====
